---------------------------- MODULE Spec2Model ----------------------------
(***************************************************************************)
(* Model of the Warhammer lore retrieval engine:                           *)
(*   src/src/rag/database.ts  (LoreDatabase, the Lore Repository)          *)
(*   src/src/rag/service.ts   (RAGService, the Retrieval Service)          *)
(*                                                                         *)
(* Three specifications share the module:                                  *)
(*   Spec        the service/repository life cycle and the asynchronous    *)
(*               query operations of concurrent callers;                   *)
(*   SpecSearch  one search call against an index that may answer with any *)
(*               candidate list that honours the filter it was given;      *)
(*   SpecCtx     buildContext applied to every input of a bounded set.     *)
(*                                                                         *)
(* Conventions.  A text body is modelled by its length (a natural number); *)
(* titles and categories are strings.  Distances and relevances are        *)
(* integers in hundredths (Scale = 100 is the float 1.0).                  *)
(***************************************************************************)
EXTENDS Integers, Sequences, FiniteSets, TLC

VARIABLES
    svcInitialized,  \* RAGService.initialized
    dbInitialized,   \* LoreDatabase.initialized
    collection,      \* LoreDatabase.collection: 0 is null, n > 0 a handle
    handles,         \* number of Collection handles the client has created
    embedder,        \* module-level embedder: FALSE is null
    loads,           \* number of pipeline() model loads started
    stored,          \* documents held by the Vector Index collection
    frame,           \* per caller: the call in progress and its position
    ret,             \* the last completed call and its outcome
    sCall,           \* SpecSearch: the search call under study
    ctxIn,           \* SpecCtx: input of buildContext
    ctxOut,          \* SpecCtx: value returned by buildContext
    ctxDone,         \* SpecCtx: buildContext has returned
    pIn,             \* SpecParse: the line given to parseEntry
    pOut,            \* SpecParse: value returned by parseEntry
    pDone,           \* SpecParse: parseEntry has returned
    ing              \* SpecIngest: the locals of ingestDataset

mainVars == <<svcInitialized, dbInitialized, collection, handles, embedder,
              loads, stored, frame, ret>>
searchVars == <<sCall>>
ctxVars == <<ctxIn, ctxOut, ctxDone>>
scriptVars == <<pIn, pOut, pDone, ing>>
vars == <<mainVars, searchVars, ctxVars, scriptVars>>

----------------------------------------------------------------------------
(* Bounds of the model *)

\* longest result list handed to buildContext in SpecCtx
MaxCtxResults == 2
\* largest explicit limit option of a search call in SpecSearch
MaxLimit == 2
\* Collection handles the client creates in one run of Spec
MaxHandles == 2
\* model loads started in one run of Spec
MaxLoads == 2
\* entries of the dataset file in one run of SpecIngest: one full batch and
\* a final one
MaxRecords == 52

----------------------------------------------------------------------------
(* Program constants *)

\* 1.0 in hundredths
Scale == 100
\* buildContext: space reserved when truncating (service.ts:130)
TruncReserve == 50
\* buildContext: least useful truncated body (service.ts:131)
MinUseful == 200
\* buildContext: default maxLength (service.ts:110)
DefaultMaxLength == 2000
\* the ellipsis marker "..." of a truncated entry (service.ts:132)
EllipsisAllowance == Len("...")
\* warhammer_lore_search: default and largest limit (rag-handlers.ts:25)
ToolDefaultLimit == 5
ToolMaxLimit == 10
\* warhammer_context: default maxLength (rag-handlers.ts:79)
ToolDefaultMaxLength == 2000
\* getContextForSituation: budget of the context it builds (service.ts:197)
SituationMaxLength == 3000
\* parseEntry: shortest text kept, longest text stored (part_001:90, 95)
MinTextLength == 50
MaxTextLength == 3000
\* ingestDataset: documents per addDocuments call (part_001:22)
BATCH_SIZE == 50
\* search: default limit (service.ts:89, database.ts:185)
DefaultLimit == 5
\* search: default minRelevance 0.3 (service.ts:89, database.ts:185)
DefaultMinRelevance == 30

Min(a, b) == IF a <= b THEN a ELSE b
Max(a, b) == IF a >= b THEN a ELSE b

SeqsUpTo(S, n) == UNION {[1..k -> S] : k \in 0..n}

NoDuplicates(s) == \A i, j \in 1..Len(s) : s[i] = s[j] => i = j

----------------------------------------------------------------------------
(* Data *)

LongTitle == "Karl Franz, Prince of Altdorf and Elector Count of Reikland"
Titles == {"Sigmar", "Altdorf", LongTitle}

\* type LoreResult (database.ts:58-64); text is the body's length
MkResult(text, title, type, relevance) ==
    [text |-> text, title |-> title, type |-> type, relevance |-> relevance]

----------------------------------------------------------------------------
(* The Vector Index (chromadb), as LoreDatabase uses it *)

\* type LoreCategory (database.ts:69-79)
LoreCategories == {"any", "character", "location", "creature", "item",
                   "event", "organization", "deity", "spell", "general"}

\* documents as addDocuments stores them (database.ts:156-167)
Doc1 == [id |-> "e1", text |-> 400, title |-> "Sigmar", type |-> "deity"]
Doc2 == [id |-> "e2", text |-> 3000, title |-> "Altdorf", type |-> "location"]
Doc3 == [id |-> "e3", text |-> 100, title |-> "Nuln", type |-> "location"]
Docs == {Doc1, Doc2, Doc3}

\* cosine distances in hundredths, domain [0, 200]
Distances == {0, 40, 72, 150}

\* One hit of collection.query: the document with its metadata, and the
\* distance the index reports for it (the field is absent when the index
\* reports none: results.distances?.[0]?.[i] is then undefined).
Candidates(docs) ==
    {[doc |-> d, distance |-> x] : d \in docs, x \in Distances}
        \cup {[doc |-> d] : d \in docs}

DistinctDocs(cands) ==
    \A i, j \in 1..Len(cands) : cands[i].doc = cands[j].doc => i = j

\* collection.query({queryEmbeddings, nResults, where}) (database.ts:211):
\* every answer the index may give: at most nResults hits, each a different
\* document of the collection, each matching the where filter when one is
\* passed; in any order and with any distances.
IndexQuery(docs, where, nResults) ==
    LET matching == {d \in docs : where = <<>> \/ d.type = where[1]}
    IN {c \in SeqsUpTo(Candidates(matching),
                       Min(nResults, Cardinality(matching))) :
            DistinctDocs(c)}

----------------------------------------------------------------------------
(* LoreDatabase.search (database.ts:173-239), RAGService.search (81-94) *)

\* an options object: a function whose domain holds the keys that are given
Opt(options, key, default) ==
    IF key \in DOMAIN options THEN options[key] ELSE default

\* const { limit = 5, category = 'any', minRelevance = 0.3 } = options
\* (service.ts:89 and again database.ts:185)
ApplyDefaults(options) ==
    [limit |-> Opt(options, "limit", DefaultLimit),
     category |-> Opt(options, "category", "any"),
     minRelevance |-> Opt(options, "minRelevance", DefaultMinRelevance)]

\* faulty variant: the category filter is never passed to the index
WhereClauseNever(category) == <<>>

\* database.ts:207-209: queryOptions.where = { type: category }
WhereClause(category) ==
    IF category # "" /\ category # "any" THEN <<category>> ELSE <<>>

\* const distance = results.distances?.[0]?.[i] || 0 (database.ts:220)
DistanceOf(cand) ==
    IF "distance" \in DOMAIN cand /\ cand.distance # 0
    THEN cand.distance ELSE 0

\* database.ts:223 and 226-232
ResultOf(cand) ==
    MkResult(cand.doc.text,
             IF cand.doc.title # "" THEN cand.doc.title ELSE "Unknown",
             IF cand.doc.type # "" THEN cand.doc.type ELSE "general",
             Scale - DistanceOf(cand))

\* faulty variant: the relevance floor is not applied
TransformNoFloor(cands, minRelevance) ==
    [i \in 1..Len(cands) |-> ResultOf(cands[i])]

\* faulty variant: hits are pushed to the front of the list (the order is reversed)
RECURSIVE TransformReversed(_, _)
TransformReversed(cands, minRelevance) ==
    IF cands = <<>> THEN <<>>
    ELSE LET rest == TransformReversed(Tail(cands), minRelevance)
             r == ResultOf(Head(cands))
         IN IF r.relevance >= minRelevance THEN Append(rest, r) ELSE rest

\* the loop of database.ts:216-235
RECURSIVE TransformResults(_, _)
TransformResults(cands, minRelevance) ==
    IF cands = <<>> THEN <<>>
    ELSE LET rest == TransformResults(Tail(cands), minRelevance)
             r == ResultOf(Head(cands))
         IN IF r.relevance >= minRelevance THEN <<r>> \o rest ELSE rest

----------------------------------------------------------------------------
(* SpecSearch: one search call in the Ready state, any index answer *)

SearchLimits == 1..MaxLimit
SearchCategories == {"any", "deity", "location"}
SearchMinRelevances == {-100, 0, 25, 50}

\* every options object over the three keys, each key given or omitted
SearchOptionSets ==
    {[k \in keys |-> full[k]] :
        full \in [limit : SearchLimits, category : SearchCategories,
                  minRelevance : SearchMinRelevances],
        keys \in SUBSET {"limit", "category", "minRelevance"}}

\* RAGService.search up to the index request of LoreDatabase.search
SearchStart ==
    /\ sCall.pc = "idle"
    /\ \E options \in SearchOptionSets :
          LET o == ApplyDefaults(ApplyDefaults(options))
          IN sCall' = [pc |-> "querying", options |-> options,
                       minRelevance |-> o.minRelevance,
                       where |-> WhereClause(o.category),
                       nResults |-> o.limit]
    /\ UNCHANGED <<mainVars, ctxVars, scriptVars>>

\* the index answers; the hits are transformed and returned
SearchIndexAnswer ==
    /\ sCall.pc = "querying"
    /\ \E cands \in IndexQuery(Docs, sCall.where, sCall.nResults) :
          sCall' = [pc |-> "done", options |-> sCall.options,
                    where |-> sCall.where, nResults |-> sCall.nResults,
                    cands |-> cands,
                    results |-> TransformResults(cands, sCall.minRelevance)]
    /\ UNCHANGED <<mainVars, ctxVars, scriptVars>>

----------------------------------------------------------------------------
(* RAGService.buildContext (service.ts:110-149)                             *)
(* The text built is a sequence of pieces; its length is the sum of the     *)
(* pieces' lengths, each computed from the template literal that makes it.  *)

HeaderText == "## Relevant Warhammer Lore\n\n"

HeaderPiece == [kind |-> "header", title |-> "", body |-> 0]

\* `### ${result.title}\n${result.text}\n\n`
EntryPiece(result) ==
    [kind |-> "entry", title |-> result.title, body |-> result.text]

\* `### ${result.title}\n${result.text.slice(0, available)}...\n\n`
TruncatedPiece(result, available) ==
    [kind |-> "truncated", title |-> result.title,
     body |-> Min(result.text, available)]

PieceLength(p) ==
    CASE p.kind = "header" -> Len(HeaderText)
      [] p.kind = "entry" ->
            Len("### ") + Len(p.title) + Len("\n") + p.body + Len("\n\n")
      [] p.kind = "truncated" ->
            Len("### ") + Len(p.title) + Len("\n") + p.body + Len("...\n\n")

RECURSIVE TextLength(_)
TextLength(text) ==
    IF text = <<>> THEN 0
    ELSE PieceLength(Head(text)) + TextLength(Tail(text))

EmptyContext == [text |-> <<>>, sourceCount |-> 0, sources |-> <<>>]

\* faulty variant: a result that does not fit is passed over and the loop
\* goes on with the results after it
RECURSIVE PackFromSkips(_, _, _, _, _, _)
PackFromSkips(results, i, contextText, currentLength, sources, maxLength) ==
    IF i > Len(results)
    THEN [text |-> contextText, sourceCount |-> Len(sources),
          sources |-> sources]
    ELSE LET result == results[i]
             entry == EntryPiece(result)
         IN IF currentLength + PieceLength(entry) > maxLength
            THEN PackFromSkips(results, i + 1, contextText, currentLength,
                               sources, maxLength)
            ELSE PackFromSkips(results, i + 1, Append(contextText, entry),
                               currentLength + PieceLength(entry),
                               Append(sources, result.title), maxLength)

\* faulty variant: room of exactly the threshold is taken as enough
UsefulAtThreshold(available) == available >= MinUseful

\* if (available > 200)  (service.ts:131)
Useful(available) == available > MinUseful

\* the for loop of lines 123-142, from result i on
RECURSIVE PackFrom(_, _, _, _, _, _)
PackFrom(results, i, contextText, currentLength, sources, maxLength) ==
    IF i > Len(results)
    THEN [text |-> contextText, sourceCount |-> Len(sources),
          sources |-> sources]
    ELSE LET result == results[i]
             entry == EntryPiece(result)
             available == maxLength - currentLength - TruncReserve
         IN IF currentLength + PieceLength(entry) > maxLength
            THEN IF Useful(available)
                 THEN [text |-> Append(contextText,
                                       TruncatedPiece(result, available)),
                       sourceCount |-> Len(sources) + 1,
                       sources |-> Append(sources, result.title)]
                 ELSE [text |-> contextText, sourceCount |-> Len(sources),
                       sources |-> sources]
            ELSE PackFrom(results, i + 1, Append(contextText, entry),
                          currentLength + PieceLength(entry),
                          Append(sources, result.title), maxLength)

\* faulty variant: the empty-input early return (lines 111-117) is missing
BuildContextNoEmptyCheck(results, maxLength) ==
    PackFrom(results, 1, <<HeaderPiece>>, PieceLength(HeaderPiece), <<>>,
             maxLength)

\* faulty variant: sourceCount is the number of results given
BuildContextCountsInput(results, maxLength) ==
    IF Len(results) = 0
    THEN EmptyContext
    ELSE [PackFrom(results, 1, <<HeaderPiece>>, PieceLength(HeaderPiece),
                   <<>>, maxLength) EXCEPT !.sourceCount = Len(results)]

BuildContext(results, maxLength) ==
    IF Len(results) = 0
    THEN EmptyContext
    ELSE PackFrom(results, 1, <<HeaderPiece>>, PieceLength(HeaderPiece),
                  <<>>, maxLength)

----------------------------------------------------------------------------
(* SpecCtx: buildContext on every input of a bounded set *)

CtxTextLengths == {100, 400, 3000}
\* 278 and 279 leave 200 and 201 characters beside the reserve after the
\* header; 391 and 392 leave as much after a first entry of 113 characters
CtxMaxLengths == {0, 20, 28, 278, 279, 391, 392, 600, 1000, DefaultMaxLength,
                  3000}
CtxResults == {MkResult(n, t, "general", Scale) :
                   n \in CtxTextLengths, t \in Titles}

BuildContextCall ==
    /\ ~ctxDone
    /\ ctxOut' = BuildContext(ctxIn.results, ctxIn.maxLength)
    /\ ctxDone' = TRUE
    /\ UNCHANGED <<ctxIn, mainVars, searchVars, scriptVars>>

----------------------------------------------------------------------------
(* Spec: callers, call frames and outcomes *)

Callers == {"a", "b"}

NoOptions == [k \in {} |-> 0]
NoResult == [none |-> TRUE]

ZeroIO == [colls |-> 0, counts |-> 0, gets |-> 0, loads |-> 0,
           embeds |-> 0, queries |-> 0, adds |-> 0, deletes |-> 0]

\* a caller with no call in progress
Idle == [op |-> "none", pc |-> "idle", args |-> NoOptions,
         searched |-> FALSE, sopts |-> NoOptions, dbopts |-> NoOptions,
         gotten |-> FALSE, got |-> <<>>, io |-> ZeroIO,
         tool |-> "none", targs |-> NoOptions]

NoReturn == [op |-> "none"]

Ok(value) == [kind |-> "ok", value |-> value]
\* 'RAG Service not initialized' (service.ts:86, 101)
NotInitialized == [kind |-> "error", error |-> "NotInitialized"]
\* 'Database not initialized. Call initialize() first.' (database.ts:182, 246)
DbNotInitialized == [kind |-> "error", error |-> "DbNotInitialized"]
\* the Vector Index failed or was unreachable
IndexError == [kind |-> "error", error |-> "IndexError"]
\* the Embedding Provider failed (model load or inference)
EmbedError == [kind |-> "error", error |-> "EmbedError"]

\* `Unknown RAG tool: ${toolName}` (rag-handlers.ts:127)
UnknownTool == [kind |-> "error", error |-> "UnknownTool"]

NewCall(op, args) == [Idle EXCEPT !.op = op, !.args = args]

\* the service call op(args) made by handleRAGTool for tool(targs)
NewToolCall(tool, targs, op, args) ==
    [Idle EXCEPT !.op = op, !.args = args, !.tool = tool, !.targs = targs]

\* the call was not made through a tool handler
NoResponse == [kind |-> "none"]

\* faulty variant: a failure of the service is reported as nothing found
RespondLosesErrors(f, outcome) ==
    CASE f.tool = "none" -> NoResponse
      [] f.tool = "warhammer_lore_search" ->
            IF outcome.kind = "error" \/ Len(outcome.value) = 0
            THEN [kind |-> "noLoreFound"]
            ELSE [kind |-> "results", count |-> Len(outcome.value)]
      [] f.tool = "warhammer_lore_lookup" ->
            IF outcome.kind = "error" \/ outcome.value = NoResult
            THEN [kind |-> "entityNotFound"]
            ELSE [kind |-> "entity", title |-> outcome.value.title]
      [] OTHER -> [kind |-> "error", message |-> "other"]

\* what handleRAGTool returns when the service call of f settled with
\* outcome (rag-handlers.ts:20-133): the catch turns every error into the
\* error response carrying its message; otherwise each tool formats the
\* value, with a response of its own for an empty one
Respond(f, outcome) ==
    IF f.tool = "none" THEN NoResponse
    ELSE IF outcome.kind = "error"
    THEN [kind |-> "error", message |-> outcome.error]
    ELSE CASE f.tool = "warhammer_lore_search" ->
                IF Len(outcome.value) = 0
                THEN [kind |-> "noLoreFound"]
                ELSE [kind |-> "results", count |-> Len(outcome.value)]
           [] f.tool = "warhammer_lore_lookup" ->
                IF outcome.value = NoResult
                THEN [kind |-> "entityNotFound"]
                ELSE [kind |-> "entity", title |-> outcome.value.title]
           [] f.tool = "warhammer_context" ->
                IF outcome.value.sourceCount = 0
                THEN [kind |-> "noRelevantLore"]
                ELSE [kind |-> "context",
                      length |-> TextLength(outcome.value.text),
                      sources |-> outcome.value.sources]
           [] f.tool = "warhammer_lore_status" ->
                IF f.op = "isReady"
                THEN [kind |-> "notAvailable"]
                ELSE [kind |-> "online", documents |-> outcome.value]

Bump(f, what) == [f EXCEPT !.io[what] = @ + 1]

\* the call of caller c goes on as f, waiting at the await it reached
Continue(c, f) ==
    /\ frame' = [frame EXCEPT ![c] = f]
    /\ ret' = NoReturn

\* the call of caller c, f, settles with outcome
Complete(c, f, outcome, results) ==
    /\ frame' = [frame EXCEPT ![c] = Idle]
    /\ ret' = [caller |-> c, op |-> f.op, args |-> f.args,
               searched |-> f.searched, sopts |-> f.sopts,
               dbopts |-> f.dbopts, gotten |-> f.gotten, got |-> f.got,
               results |-> results, io |-> f.io, outcome |-> outcome,
               tool |-> f.tool, targs |-> f.targs,
               response |-> Respond(f, outcome)]

----------------------------------------------------------------------------
(* RAGService.initialize (service.ts:51-62),                                *)
(* LoreDatabase.initialize (database.ts:102-120)                            *)

\* faulty variant: the repository connects again although it is initialized
DbAlreadyInitializedNever == FALSE

\* if (this.initialized) return;  (database.ts:103)
DbAlreadyInitialized == dbInitialized

\* if (this.initialized) return;  (service.ts:52)
SvcAlreadyInitialized == svcInitialized

\* LoreDatabase.initialize up to its first await, inside call f of caller c
DbInitializeEnter(c, f) ==
    IF DbAlreadyInitialized
    THEN IF f.op = "initialize"
         THEN /\ Continue(c, [f EXCEPT !.pc = "svc_resume"])
              /\ UNCHANGED <<svcInitialized, dbInitialized, collection,
                             handles, embedder, loads, stored>>
         ELSE /\ Complete(c, f, Ok(NoResult), <<>>)
              /\ UNCHANGED <<svcInitialized, dbInitialized, collection,
                             handles, embedder, loads, stored>>
    ELSE /\ Continue(c, Bump([f EXCEPT !.pc = "getOrCreateCollection"],
                             "colls"))
         /\ UNCHANGED <<svcInitialized, dbInitialized, collection, handles,
                        embedder, loads, stored>>

\* a caller calls RAGService.initialize()
SvcInitialize(c) ==
    /\ frame[c].pc = "idle"
    /\ IF SvcAlreadyInitialized
       THEN /\ Complete(c, NewCall("initialize", NoOptions), Ok(NoResult),
                        <<>>)
            /\ UNCHANGED <<svcInitialized, dbInitialized, collection,
                           handles, embedder, loads, stored>>
       ELSE DbInitializeEnter(c, NewCall("initialize", NoOptions))
    /\ UNCHANGED <<searchVars, ctxVars, scriptVars>>

\* a caller calls LoreDatabase.initialize() on the repository itself
DbInitialize(c) ==
    /\ frame[c].pc = "idle"
    /\ DbInitializeEnter(c, NewCall("dbInitialize", NoOptions))
    /\ UNCHANGED <<searchVars, ctxVars, scriptVars>>

\* client.getOrCreateCollection settles (database.ts:108-111)
GetOrCreateCollectionReturn(c) ==
    /\ frame[c].pc = "getOrCreateCollection"
    /\ \/ /\ handles < MaxHandles
          /\ handles' = handles + 1
          /\ collection' = handles + 1
          /\ Continue(c, Bump([frame[c] EXCEPT !.pc = "count"], "counts"))
       \/ /\ Complete(c, frame[c], IndexError, <<>>)
          /\ UNCHANGED <<handles, collection>>
    /\ UNCHANGED <<svcInitialized, dbInitialized, embedder, loads, stored,
                   searchVars, ctxVars, scriptVars>>

\* faulty variant: the repository is marked initialized although the
\* count failed
CountReturnMarksInitialized(c) ==
    /\ frame[c].pc = "count"
    /\ dbInitialized' = TRUE
    /\ \/ IF frame[c].op = "initialize"
          THEN Continue(c, [frame[c] EXCEPT !.pc = "svc_resume"])
          ELSE Complete(c, frame[c], Ok(NoResult), <<>>)
       \/ Complete(c, frame[c], IndexError, <<>>)
    /\ UNCHANGED <<svcInitialized, collection, handles, embedder, loads,
                   stored, searchVars, ctxVars, scriptVars>>

\* collection.count settles (database.ts:113-115)
CountReturn(c) ==
    /\ frame[c].pc = "count"
    /\ \/ /\ dbInitialized' = TRUE
          /\ IF frame[c].op = "initialize"
             THEN Continue(c, [frame[c] EXCEPT !.pc = "svc_resume"])
             ELSE Complete(c, frame[c], Ok(NoResult), <<>>)
       \/ /\ Complete(c, frame[c], IndexError, <<>>)
          /\ UNCHANGED dbInitialized
    /\ UNCHANGED <<svcInitialized, collection, handles, embedder, loads,
                   stored, searchVars, ctxVars, scriptVars>>

\* RAGService.initialize resumes after await this.db.initialize()
\* (service.ts:55-57)
SvcInitializeResume(c) ==
    /\ frame[c].pc = "svc_resume"
    /\ svcInitialized' = TRUE
    /\ Complete(c, frame[c], Ok(NoResult), <<>>)
    /\ UNCHANGED <<dbInitialized, collection, handles, embedder, loads,
                   stored, searchVars, ctxVars, scriptVars>>

----------------------------------------------------------------------------
(* The embedding model: getEmbedder, embed (database.ts:21-38) *)

\* embed(text) up to its first await, inside call f of caller c: the model
\* is loaded first when the module-level handle is still null
EmbedEnter(c, f) ==
    IF embedder
    THEN /\ Continue(c, Bump([f EXCEPT !.pc = "embedding"], "embeds"))
         /\ UNCHANGED <<embedder, loads>>
    ELSE /\ loads < MaxLoads
         /\ loads' = loads + 1
         /\ Continue(c, Bump([f EXCEPT !.pc = "loading"], "loads"))
         /\ UNCHANGED embedder

----------------------------------------------------------------------------
(* The query operations of RAGService (service.ts:81-105, 154-223) and of   *)
(* LoreDatabase (database.ts:173-266)                                       *)

\* the index's answers in Spec: those of IndexQuery that report one of two
\* distances for every hit (0.40: kept by every floor used; 0.72: dropped by
\* the default floor 0.3 and kept by the floor 0.25)
MainDistances == {40, 72}
MainIndexQuery(docs, where, nResults) ==
    {cands \in IndexQuery(docs, where, nResults) :
        \A i \in 1..Len(cands) :
            /\ "distance" \in DOMAIN cands[i]
            /\ cands[i].distance \in MainDistances}

\* collection.get({ where: { title } }) (database.ts:249-252): the stored
\* documents with that title, in any order
IndexGet(docs, title) ==
    LET matching == {d \in docs : d.title = title}
    IN {got \in SeqsUpTo(matching, Cardinality(matching)) :
            /\ Len(got) = Cardinality(matching)
            /\ \A i, j \in 1..Len(got) : got[i] = got[j] => i = j}

\* database.ts:254-265
GetByTitleResult(got, title) ==
    IF Len(got) > 0 /\ got[1].text # 0
    THEN MkResult(got[1].text,
                  IF got[1].title # "" THEN got[1].title ELSE title,
                  IF got[1].type # "" THEN got[1].type ELSE "general",
                  Scale)
    ELSE NoResult

\* faulty variant: the guard looks at the repository's handle, not at the flag
SvcNotInitializedByHandle == collection = 0

\* if (!this.initialized) throw ...  (service.ts:85, 100)
SvcNotInitialized == ~svcInitialized

\* RAGService.search(query, sopts) and LoreDatabase.search up to the first
\* await, inside call f of caller c
SearchEnter(c, f, sopts) ==
    LET g == [f EXCEPT !.searched = TRUE, !.sopts = sopts]
    IN IF SvcNotInitialized
       THEN /\ Complete(c, g, NotInitialized, <<>>)
            /\ UNCHANGED <<embedder, loads>>
       ELSE IF collection = 0
            THEN /\ Complete(c, g, DbNotInitialized, <<>>)
                 /\ UNCHANGED <<embedder, loads>>
            ELSE EmbedEnter(c, [g EXCEPT !.dbopts =
                                   ApplyDefaults(ApplyDefaults(sopts))])

\* RAGService.getByTitle(title) and LoreDatabase.getByTitle up to the await
GetByTitleEnter(c, f) ==
    IF SvcNotInitialized
    THEN Complete(c, f, NotInitialized, <<>>)
    ELSE IF collection = 0
         THEN Complete(c, f, DbNotInitialized, <<>>)
         ELSE Continue(c, Bump([f EXCEPT !.pc = "getting"], "gets"))

\* faulty variant: the semantic search is made whatever the exact lookup found
LookupFallsBackAlways(exact) == TRUE

\* if (exact) return exact;  (service.ts:173)
LookupFallsBack(exact) == exact = NoResult

\* faulty variant: the category is not handed on to the search
LookupSearchOptionsNoCategory(args) == [limit |-> 1]

\* service.ts:176-179
LookupSearchOptions(args) ==
    IF "category" \in DOMAIN args /\ args["category"] # ""
    THEN [limit |-> 1, category |-> args["category"]]
    ELSE [limit |-> 1]

\* service.ts:214-217
RandomSearchOptions(args) ==
    IF "category" \in DOMAIN args /\ args["category"] # ""
    THEN [limit |-> 10, category |-> args["category"]]
    ELSE [limit |-> 10]

\* const { maxContextLength = 2000, ...searchOptions } = options
\* (service.ts:158)
RestOptions(options) ==
    [k \in DOMAIN options \ {"maxContextLength"} |-> options[k]]

\* what each operation makes of the results of its search: the values it
\* may return (getRandomLore picks any one result)
\* faulty variant: none may be returned although the search found results
RandomPickOrNone(results) ==
    {NoResult} \cup {results[i] : i \in 1..Len(results)}

\* if (results.length === 0) return null; otherwise the result at a random
\* index (service.ts:220-222): the values getRandomLore may return
RandomPick(results) ==
    IF Len(results) = 0 THEN {NoResult}
    ELSE {results[i] : i \in 1..Len(results)}

Finish(f, results) ==
    CASE f.op \in {"search", "dbSearch"} -> {results}
      [] f.op = "searchWithContext" ->
            {BuildContext(results,
                          Opt(f.args, "maxContextLength", DefaultMaxLength))}
      [] f.op = "getContextForSituation" ->
            {BuildContext(results, SituationMaxLength)}
      [] f.op = "lookupEntity" ->
            {IF Len(results) > 0 THEN results[1] ELSE NoResult}
      [] f.op = "getRandomLore" -> RandomPick(results)

MainNames == {"Sigmar", "Nuln"}
MainSearchOptions == {NoOptions, [category |-> "location"]}
MainContextOptions == {NoOptions, [maxContextLength |-> 600]}
MainLookupArgs == {[name |-> n] : n \in MainNames}
                     \cup {[name |-> n, category |-> "location"] :
                              n \in MainNames}
MainRandomArgs == {NoOptions, [category |-> "location"]}

Search(c) ==
    /\ frame[c].pc = "idle"
    /\ \E options \in MainSearchOptions :
          SearchEnter(c, NewCall("search", options), options)
    /\ UNCHANGED <<svcInitialized, dbInitialized, collection, handles,
                   stored, searchVars, ctxVars, scriptVars>>

SearchWithContext(c) ==
    /\ frame[c].pc = "idle"
    /\ \E options \in MainContextOptions :
          SearchEnter(c, NewCall("searchWithContext", options),
                      RestOptions(options))
    /\ UNCHANGED <<svcInitialized, dbInitialized, collection, handles,
                   stored, searchVars, ctxVars, scriptVars>>

GetContextForSituation(c) ==
    /\ frame[c].pc = "idle"
    /\ SearchEnter(c, NewCall("getContextForSituation", NoOptions),
                   [limit |-> 5, minRelevance |-> 25])
    /\ UNCHANGED <<svcInitialized, dbInitialized, collection, handles,
                   stored, searchVars, ctxVars, scriptVars>>

GetRandomLore(c) ==
    /\ frame[c].pc = "idle"
    /\ \E args \in MainRandomArgs :
          SearchEnter(c, NewCall("getRandomLore", args),
                      RandomSearchOptions(args))
    /\ UNCHANGED <<svcInitialized, dbInitialized, collection, handles,
                   stored, searchVars, ctxVars, scriptVars>>

GetByTitle(c) ==
    /\ frame[c].pc = "idle"
    /\ \E title \in MainNames :
          GetByTitleEnter(c, NewCall("getByTitle", [name |-> title]))
    /\ UNCHANGED <<svcInitialized, dbInitialized, collection, handles,
                   embedder, loads, stored, searchVars, ctxVars, scriptVars>>

LookupEntity(c) ==
    /\ frame[c].pc = "idle"
    /\ \E args \in MainLookupArgs :
          GetByTitleEnter(c, NewCall("lookupEntity", args))
    /\ UNCHANGED <<svcInitialized, dbInitialized, collection, handles,
                   embedder, loads, stored, searchVars, ctxVars, scriptVars>>

\* collection.get settles (database.ts:249-265); lookupEntity goes on with
\* the semantic search when the exact lookup found nothing (service.ts:172-180)
GetReturn(c) ==
    /\ frame[c].pc = "getting"
    /\ \/ \E got \in IndexGet(stored, frame[c].args["name"]) :
             LET exact == GetByTitleResult(got, frame[c].args["name"])
                 g == [frame[c] EXCEPT !.gotten = TRUE, !.got = got]
             IN IF frame[c].op = "lookupEntity" /\ LookupFallsBack(exact)
                THEN SearchEnter(c, g, LookupSearchOptions(g.args))
                ELSE /\ Complete(c, g, Ok(exact), <<>>)
                     /\ UNCHANGED <<embedder, loads>>
       \/ /\ Complete(c, frame[c], IndexError, <<>>)
          /\ UNCHANGED <<embedder, loads>>
    /\ UNCHANGED <<svcInitialized, dbInitialized, collection, handles,
                   stored, searchVars, ctxVars, scriptVars>>

\* pipeline(...) settles (database.ts:24-26), then the model is called
PipelineReturn(c) ==
    /\ frame[c].pc = "loading"
    /\ \/ /\ embedder' = TRUE
          /\ Continue(c, Bump([frame[c] EXCEPT !.pc = "embedding"],
                              "embeds"))
       \/ /\ Complete(c, frame[c], EmbedError, <<>>)
          /\ UNCHANGED embedder
    /\ UNCHANGED <<svcInitialized, dbInitialized, collection, handles,
                   loads, stored, searchVars, ctxVars, scriptVars>>

\* faulty variant: every document is written as soon as it is embedded
AfterEmbeddingWritesEach(f) ==
    IF f.op = "addDocuments"
    THEN Bump([f EXCEPT !.pc = "adding"], "adds")
    ELSE Bump([f EXCEPT !.pc = "querying"], "queries")

\* where call f goes once model(text) has answered: search queries the index
\* (database.ts:190, 211); addDocuments embeds the next document of the batch
\* and, after the last one, makes its single collection.add
\* (database.ts:154-162)
AfterEmbedding(f) ==
    IF f.op = "addDocuments"
    THEN IF f.io.embeds < Len(f.args["batch"])
         THEN Bump(f, "embeds")
         ELSE Bump([f EXCEPT !.pc = "adding"], "adds")
    ELSE Bump([f EXCEPT !.pc = "querying"], "queries")

\* faulty variant: a failed embedding is computed once more before the call
\* gives up
EmbedReturnRetries(c) ==
    /\ frame[c].pc = "embedding"
    /\ \/ Continue(c, AfterEmbedding(frame[c]))
       \/ IF frame[c].io.embeds < 2
          THEN Continue(c, Bump(frame[c], "embeds"))
          ELSE Complete(c, frame[c], EmbedError, <<>>)
    /\ UNCHANGED <<svcInitialized, dbInitialized, collection, handles,
                   embedder, loads, stored, searchVars, ctxVars, scriptVars>>

\* model(text) settles (database.ts:36-37), then the caller of embed goes on
EmbedReturn(c) ==
    /\ frame[c].pc = "embedding"
    /\ \/ Continue(c, AfterEmbedding(frame[c]))
       \/ Complete(c, frame[c], EmbedError, <<>>)
    /\ UNCHANGED <<svcInitialized, dbInitialized, collection, handles,
                   embedder, loads, stored, searchVars, ctxVars, scriptVars>>

\* collection.query settles (database.ts:211-238); the operation that made
\* the search returns
QueryReturn(c) ==
    /\ frame[c].pc = "querying"
    /\ \/ \E cands \in MainIndexQuery(stored,
                                      WhereClause(frame[c].dbopts.category),
                                      frame[c].dbopts.limit) :
             LET results == TransformResults(cands,
                                             frame[c].dbopts.minRelevance)
             IN \E value \in Finish(frame[c], results) :
                   Complete(c, frame[c], Ok(value), results)
       \/ Complete(c, frame[c], IndexError, <<>>)
    /\ UNCHANGED <<svcInitialized, dbInitialized, collection, handles,
                   embedder, loads, stored, searchVars, ctxVars, scriptVars>>

----------------------------------------------------------------------------
(* LoreDatabase.count, addDocuments, clear (database.ts:132-168, 271-286),  *)
(* RAGService.isReady, getDocumentCount (service.ts:67-76)                  *)

\* isReady(): this.initialized && this.db.isInitialized()  (service.ts:67-69)
IsReady == svcInitialized /\ dbInitialized

\* the batches the ingestion side hands to addDocuments
RepoBatches == {<<>>, <<Doc1>>, <<Doc2, Doc1>>}

BatchDocs(batch) == {batch[i] : i \in 1..Len(batch)}

\* faulty variant: the empty batch is not recognised
EmptyBatchNever(batch) == FALSE

\* if (documents.length === 0) return;  (database.ts:145)
EmptyBatch(batch) == Len(batch) = 0

\* getDocumentCount() / count() up to the await, inside call f of caller c:
\* 0 without a collection handle, otherwise whatever collection.count()
\* gives (database.ts:132-135)
CountEnter(c, f) ==
    IF collection = 0
    THEN Complete(c, f, Ok(0), <<>>)
    ELSE Continue(c, Bump([f EXCEPT !.pc = "counting"], "counts"))

Count(c) ==
    /\ frame[c].pc = "idle"
    /\ CountEnter(c, NewCall("count", NoOptions))
    /\ UNCHANGED <<svcInitialized, dbInitialized, collection, handles,
                   embedder, loads, stored, searchVars, ctxVars, scriptVars>>

\* collection.count() of count() settles (database.ts:134)
DocumentCountReturn(c) ==
    /\ frame[c].pc = "counting"
    /\ \/ Complete(c, frame[c], Ok(Cardinality(stored)), <<>>)
       \/ Complete(c, frame[c], IndexError, <<>>)
    /\ UNCHANGED <<svcInitialized, dbInitialized, collection, handles,
                   embedder, loads, stored, searchVars, ctxVars, scriptVars>>

\* a caller calls addDocuments(batch) (database.ts:140-153): the handle is
\* tested first, then the empty batch; the loop over the documents awaits
\* embed for each, and with nothing to loop over goes straight to the write
AddDocuments(c) ==
    /\ frame[c].pc = "idle"
    /\ \E batch \in RepoBatches :
          LET f == NewCall("addDocuments", [batch |-> batch])
          IN IF collection = 0
             THEN /\ Complete(c, f, DbNotInitialized, <<>>)
                  /\ UNCHANGED <<embedder, loads>>
             ELSE IF EmptyBatch(batch)
             THEN /\ Complete(c, f, Ok(NoResult), <<>>)
                  /\ UNCHANGED <<embedder, loads>>
             ELSE IF Len(batch) = 0
             THEN /\ Continue(c, Bump([f EXCEPT !.pc = "adding"], "adds"))
                  /\ UNCHANGED <<embedder, loads>>
             ELSE EmbedEnter(c, f)
    /\ UNCHANGED <<svcInitialized, dbInitialized, collection, handles,
                   stored, searchVars, ctxVars, scriptVars>>

\* collection.add of the whole batch settles (database.ts:162-167)
AddReturn(c) ==
    /\ frame[c].pc = "adding"
    /\ \/ /\ stored' = stored \cup BatchDocs(frame[c].args["batch"])
          /\ Complete(c, frame[c], Ok(NoResult), <<>>)
       \/ /\ Complete(c, frame[c], IndexError, <<>>)
          /\ UNCHANGED stored
    /\ UNCHANGED <<svcInitialized, dbInitialized, collection, handles,
                   embedder, loads, searchVars, ctxVars, scriptVars>>

\* a caller calls LoreDatabase.search(query, options) on the repository
\* itself (database.ts:173-190): the handle is tested, then the query text
\* is embedded
DbSearch(c) ==
    /\ frame[c].pc = "idle"
    /\ \E options \in MainSearchOptions :
          LET f == [NewCall("dbSearch", options) EXCEPT
                        !.dbopts = ApplyDefaults(options)]
          IN IF collection = 0
             THEN /\ Complete(c, f, DbNotInitialized, <<>>)
                  /\ UNCHANGED <<embedder, loads>>
             ELSE EmbedEnter(c, f)
    /\ UNCHANGED <<svcInitialized, dbInitialized, collection, handles,
                   stored, searchVars, ctxVars, scriptVars>>

\* a caller calls LoreDatabase.getByTitle(title) on the repository itself
\* (database.ts:244-252)
DbGetByTitle(c) ==
    /\ frame[c].pc = "idle"
    /\ \E title \in MainNames :
          LET f == NewCall("dbGetByTitle", [name |-> title])
          IN IF collection = 0
             THEN Complete(c, f, DbNotInitialized, <<>>)
             ELSE Continue(c, Bump([f EXCEPT !.pc = "getting"], "gets"))
    /\ UNCHANGED <<svcInitialized, dbInitialized, collection, handles,
                   embedder, loads, stored, searchVars, ctxVars, scriptVars>>

\* a caller calls clear() (database.ts:271-275)
Clear(c) ==
    /\ frame[c].pc = "idle"
    /\ IF collection = 0
       THEN Complete(c, NewCall("clear", NoOptions), Ok(NoResult), <<>>)
       ELSE Continue(c, Bump([NewCall("clear", NoOptions)
                                 EXCEPT !.pc = "deleting"], "deletes"))
    /\ UNCHANGED <<svcInitialized, dbInitialized, collection, handles,
                   embedder, loads, stored, searchVars, ctxVars, scriptVars>>

\* client.deleteCollection settles (database.ts:275); every document goes
\* with the collection, and the collection is asked for again.  Until the
\* new handle is assigned, and for good if that fails, this.collection is
\* the handle of the deleted collection: a request through it may fail, and
\* every request of the model may fail or be answered from what is stored
DeleteCollectionReturn(c) ==
    /\ frame[c].pc = "deleting"
    /\ \/ /\ stored' = {}
          /\ Continue(c, Bump([frame[c] EXCEPT !.pc = "recreating"],
                              "colls"))
       \/ /\ Complete(c, frame[c], IndexError, <<>>)
          /\ UNCHANGED stored
    /\ UNCHANGED <<svcInitialized, dbInitialized, collection, handles,
                   embedder, loads, searchVars, ctxVars, scriptVars>>

\* faulty variant: a clear that fails part-way marks the repository as not
\* initialized
RecreateCollectionReturnResets(c) ==
    /\ frame[c].pc = "recreating"
    /\ \/ /\ handles < MaxHandles
          /\ handles' = handles + 1
          /\ collection' = handles + 1
          /\ Complete(c, frame[c], Ok(NoResult), <<>>)
          /\ UNCHANGED dbInitialized
       \/ /\ Complete(c, frame[c], IndexError, <<>>)
          /\ dbInitialized' = FALSE
          /\ UNCHANGED <<handles, collection>>
    /\ UNCHANGED <<svcInitialized, embedder, loads, stored, searchVars,
                   ctxVars, scriptVars>>

\* client.getOrCreateCollection of clear() settles (database.ts:276-279);
\* on failure the old handle stays and the error is rethrown
\* (database.ts:281-284); this.initialized is not touched either way
RecreateCollectionReturn(c) ==
    /\ frame[c].pc = "recreating"
    /\ \/ /\ handles < MaxHandles
          /\ handles' = handles + 1
          /\ collection' = handles + 1
          /\ Complete(c, frame[c], Ok(NoResult), <<>>)
       \/ /\ Complete(c, frame[c], IndexError, <<>>)
          /\ UNCHANGED <<handles, collection>>
    /\ UNCHANGED <<svcInitialized, dbInitialized, embedder, loads, stored,
                   searchVars, ctxVars, scriptVars>>

----------------------------------------------------------------------------
(* handleRAGTool (rag-handlers.ts:13-134) *)

\* the limit arguments a client sends: none, zero, negative, in range, the
\* largest allowed, above it
ToolLimits == {-3, 0, 1, 7, ToolMaxLimit, 25}
ToolMaxLengths == {0, 500, SituationMaxLength}

ToolSearchArgs ==
    {[k \in keys |-> full[k]] :
        full \in [limit : ToolLimits, category : {"location"}],
        keys \in SUBSET {"limit", "category"}}
ToolLookupArgs == MainLookupArgs
ToolContextArgs == {NoOptions} \cup {[maxLength |-> n] : n \in ToolMaxLengths}

\* the handler keeps no state of its own between requests: one client
ToolCallers == {"a"}

\* faulty variant: the limit argument is handed on as it came
ClampLimitNoClamp(targs) == Opt(targs, "limit", ToolDefaultLimit)

\* Math.min(Math.max((args.limit as number) || 5, 1), 10)
\* (rag-handlers.ts:25); an absent limit and 0 are both falsy
ClampLimit(targs) ==
    LET given == Opt(targs, "limit", 0)
        orDefault == IF given = 0 THEN ToolDefaultLimit ELSE given
    IN Min(Max(orDefault, 1), ToolMaxLimit)

\* (args.category as LoreCategory) || 'any'  (rag-handlers.ts:24)
ToolCategory(targs) == Opt(targs, "category", "any")

\* (args.maxLength as number) || 2000  (rag-handlers.ts:79)
ToolMaxLength(targs) ==
    LET given == Opt(targs, "maxLength", 0)
    IN IF given = 0 THEN ToolDefaultMaxLength ELSE given

\* case 'warhammer_lore_search' up to the await (rag-handlers.ts:22-27)
LoreSearchTool(c) ==
    /\ frame[c].pc = "idle"
    /\ \E targs \in ToolSearchArgs :
          LET options == [limit |-> ClampLimit(targs),
                          category |-> ToolCategory(targs)]
          IN SearchEnter(c, NewToolCall("warhammer_lore_search", targs,
                                        "search", options), options)
    /\ UNCHANGED <<svcInitialized, dbInitialized, collection, handles,
                   stored, searchVars, ctxVars, scriptVars>>

\* case 'warhammer_lore_lookup' up to the await (rag-handlers.ts:52-56)
LoreLookupTool(c) ==
    /\ frame[c].pc = "idle"
    /\ \E targs \in ToolLookupArgs :
          GetByTitleEnter(c, NewToolCall("warhammer_lore_lookup", targs,
                                         "lookupEntity", targs))
    /\ UNCHANGED <<svcInitialized, dbInitialized, collection, handles,
                   embedder, loads, stored, searchVars, ctxVars, scriptVars>>

\* case 'warhammer_context' up to the await (rag-handlers.ts:76-81): the
\* service is called with the situation and the entities only
ContextTool(c) ==
    /\ frame[c].pc = "idle"
    /\ \E targs \in ToolContextArgs :
          SearchEnter(c, NewToolCall("warhammer_context", targs,
                                     "getContextForSituation", NoOptions),
                      [limit |-> 5, minRelevance |-> 25])
    /\ UNCHANGED <<svcInitialized, dbInitialized, collection, handles,
                   stored, searchVars, ctxVars, scriptVars>>

\* case 'warhammer_lore_status' up to the await (rag-handlers.ts:96-112)
StatusTool(c) ==
    /\ frame[c].pc = "idle"
    /\ IF ~IsReady
       THEN Complete(c, NewToolCall("warhammer_lore_status", NoOptions,
                                    "isReady", NoOptions), Ok(FALSE), <<>>)
       ELSE CountEnter(c, NewToolCall("warhammer_lore_status", NoOptions,
                                      "count", NoOptions))
    /\ UNCHANGED <<svcInitialized, dbInitialized, collection, handles,
                   embedder, loads, stored, searchVars, ctxVars, scriptVars>>

\* default: throw new Error(`Unknown RAG tool`), caught at once
\* (rag-handlers.ts:126-133)
OtherTool(c) ==
    /\ frame[c].pc = "idle"
    /\ Complete(c, NewToolCall("other", NoOptions, "none", NoOptions),
                UnknownTool, <<>>)
    /\ UNCHANGED <<svcInitialized, dbInitialized, collection, handles,
                   embedder, loads, stored, searchVars, ctxVars, scriptVars>>

----------------------------------------------------------------------------
(* parseEntry of the ingestion script (part_001:69-123) *)

\* a line JSON.parse rejects
InvalidJson == [json |-> "invalid"]
\* the line `null`: it parses, and reading entry.content throws
NullJson == [json |-> "null"]
\* a line holding an object with the given fields; content maps the keys it
\* has to the lengths of their strings, 0 being the empty string
ObjectJson(fields) == [json |-> "object", fields |-> fields]

ContentKeys == <<"summary", "description", "text">>

\* [summary, description, text].filter(Boolean): the lengths of the parts
\* that are present and not empty (part_001:76-80)
RECURSIVE PartsFrom(_, _)
PartsFrom(content, i) ==
    IF i > Len(ContentKeys) THEN <<>>
    ELSE LET rest == PartsFrom(content, i + 1)
         IN IF ContentKeys[i] \in DOMAIN content
               /\ content[ContentKeys[i]] # 0
            THEN <<content[ContentKeys[i]]>> \o rest
            ELSE rest

\* length of parts.join('\n\n') (part_001:81)
RECURSIVE JoinLength(_)
JoinLength(parts) ==
    IF Len(parts) = 0 THEN 0
    ELSE IF Len(parts) = 1 THEN parts[1]
    ELSE parts[1] + Len("\n\n") + JoinLength(Tail(parts))

\* length of the text parseEntry extracts: the joined content, or the title
\* when that is empty (part_001:74-87)
ExtractedLength(fields) ==
    LET text == IF "content" \in DOMAIN fields
                THEN JoinLength(PartsFrom(fields["content"], 1))
                ELSE 0
    IN IF text = 0 /\ "title" \in DOMAIN fields
       THEN Len(fields["title"])
       ELSE text

\* length of text.slice(start, end) for 0 <= start <= end
SliceLength(len, start, end) == Min(len, end) - Min(len, start)

\* s.includes(sub)
Includes(s, sub) ==
    \E i \in 1..(Len(s) - Len(sub) + 1) : SubSeq(s, i, i + Len(sub) - 1) = sub

UpperCase == <<"A", "B", "C", "D", "E", "F", "G", "H", "I", "J", "K", "L",
               "M", "N", "O", "P", "Q", "R", "S", "T", "U", "V", "W", "X",
               "Y", "Z">>
LowerCase == <<"a", "b", "c", "d", "e", "f", "g", "h", "i", "j", "k", "l",
               "m", "n", "o", "p", "q", "r", "s", "t", "u", "v", "w", "x",
               "y", "z">>

LowerChar(ch) ==
    IF \E i \in 1..Len(UpperCase) : UpperCase[i] = ch
    THEN LowerCase[CHOOSE i \in 1..Len(UpperCase) : UpperCase[i] = ch]
    ELSE ch

\* s.toLowerCase()
RECURSIVE ToLowerCase(_)
ToLowerCase(s) ==
    IF Len(s) = 0 THEN ""
    ELSE LowerChar(SubSeq(s, 1, 1)) \o ToLowerCase(SubSeq(s, 2, Len(s)))

\* one line of the chain of part_001:100-107: if the type includes one of
\* the words it becomes category
Renamed(type, words, category) ==
    IF \E w \in words : Includes(type, w) THEN category ELSE type

\* the type of the document (part_001:98-107); every line of the chain
\* tests the value the lines before it left
NormalizeType(fields) ==
    LET t0 == IF "type" \in DOMAIN fields /\ fields["type"] # ""
              THEN ToLowerCase(fields["type"])
              ELSE "general"
        t1 == Renamed(t0, {"person", "character"}, "character")
        t2 == Renamed(t1, {"place", "city", "region"}, "location")
        t3 == Renamed(t2, {"creature", "monster", "race"}, "creature")
        t4 == Renamed(t3, {"weapon", "artifact", "magic item"}, "item")
        t5 == Renamed(t4, {"battle", "war", "event"}, "event")
        t6 == Renamed(t5, {"guild", "order", "faction"}, "organization")
        t7 == Renamed(t6, {"god", "deity"}, "deity")
    IN Renamed(t7, {"spell", "magic"}, "spell")

\* x || fallback for a string field of the entry
FieldOr(fields, key, fallback) ==
    IF key \in DOMAIN fields /\ fields[key] # ""
    THEN fields[key]
    ELSE fallback

\* faulty variant: short entries are kept
TooShortNever(len) == FALSE

\* if (text.length < 50) return null;  (part_001:90)
TooShort(len) == len < MinTextLength

\* parseEntry(line); random is what Math.random() gives for the id of an
\* entry without one; NoResult is null
ParseEntry(entry, random) ==
    IF entry.json # "object"
    THEN NoResult
    ELSE LET fields == entry.fields
             length == ExtractedLength(fields)
         IN IF TooShort(length)
            THEN NoResult
            ELSE [id |-> FieldOr(fields, "id", "entry_" \o random),
                  text |-> SliceLength(length, 0, MaxTextLength),
                  title |-> FieldOr(fields, "title", "Unknown"),
                  type |-> NormalizeType(fields)]

----------------------------------------------------------------------------
(* SpecParse: parseEntry on every line of a bounded set *)

\* 24 + 2 + 24 reaches the shortest text kept; 1500 + 2 + 1500 passes the
\* longest text stored
ParseLengths == {0, 24, 49, 1500, MaxTextLength + 1}
ParseTitles == {"", "Sigmar", LongTitle}
\* raw types: three that the chain of part_001:100-107 renames, the wildcard,
\* and one that holds none of the chain's words
ParseTypes == {"Person", "Dwarf Race", "Magic Item", "Any", "Chronicle"}
ParseContents ==
    {[k \in keys |-> full[k]] :
        full \in [summary : ParseLengths, description : ParseLengths,
                  text : ParseLengths],
        keys \in SUBSET {"summary", "description", "text"}}
ParseEntries ==
    {InvalidJson, NullJson}
        \cup {ObjectJson([k \in keys |-> full[k]]) :
                 full \in [id : {"e9"}, title : ParseTitles,
                           type : ParseTypes, content : ParseContents],
                 keys \in SUBSET {"id", "title", "type", "content"}}
RandomIds == {"r1", "r2"}

ParseEntryCall ==
    /\ ~pDone
    /\ \E random \in RandomIds : pOut' = ParseEntry(pIn, random)
    /\ pDone' = TRUE
    /\ UNCHANGED <<pIn, ing, mainVars, searchVars, ctxVars>>

----------------------------------------------------------------------------
(* ingestDataset of the ingestion script (part_001:125-219) *)

\* the locals of ingestDataset before it runs; malformed counts the lines
\* read so far that were not a JSON object, parsed the documents made so far
NoRun == [pc |-> "start", batch |-> <<>>, totalProcessed |-> 0,
          totalIndexed |-> 0, errors |-> 0, malformed |-> 0, parsed |-> 0]

\* the entries of the dataset file: a malformed line, an entry whose text
\* is too short, an entry that makes a document
ShortEntry == ObjectJson([title |-> "Nuln"])
ValidEntry == ObjectJson([title |-> "Altdorf", content |-> [text |-> 400]])
IngestEntries == {InvalidJson, ShortEntry, ValidEntry}

\* await db.initialize() (part_001:131-140): on failure the process exits
IngestInitialize ==
    /\ ing.pc = "start"
    /\ \/ /\ handles < MaxHandles
          /\ handles' = handles + 1
          /\ collection' = handles + 1
          /\ dbInitialized' = TRUE
          /\ ing' = [ing EXCEPT !.pc = "count"]
       \/ /\ ing' = [ing EXCEPT !.pc = "exited"]
          /\ UNCHANGED <<handles, collection, dbInitialized>>
    /\ UNCHANGED <<svcInitialized, embedder, loads, stored, frame, ret,
                   searchVars, ctxVars, pIn, pOut, pDone>>

\* await db.count() and the question asked when the index is not empty
\* (part_001:143-164); a rejected count ends the process (part_001:233-236)
IngestCount ==
    /\ ing.pc = "count"
    /\ \/ /\ stored = {}
          /\ ing' = [ing EXCEPT !.pc = "loop"]
       \/ /\ stored # {}
          /\ \E answer \in {"y", "n"} :
                ing' = [ing EXCEPT !.pc = IF answer = "y" THEN "loop"
                                          ELSE "exited"]
       \/ ing' = [ing EXCEPT !.pc = "exited"]
    /\ UNCHANGED <<mainVars, searchVars, ctxVars, pIn, pOut, pDone>>

\* one turn of the loop over the entries (part_001:179-188): the entry is
\* counted and parsed, its document, if any, joins the batch, and a full
\* batch is handed to addDocuments
IngestEntry ==
    /\ ing.pc = "loop"
    /\ ing.totalProcessed < MaxRecords
    /\ \E entry \in IngestEntries :
          LET doc == ParseEntry(entry, ToString(ing.parsed + 1))
              batch == IF doc # NoResult THEN Append(ing.batch, doc)
                       ELSE ing.batch
          IN ing' = [ing EXCEPT
                        !.totalProcessed = @ + 1,
                        !.batch = batch,
                        !.parsed = IF doc # NoResult THEN @ + 1 ELSE @,
                        !.malformed = IF entry.json # "object" THEN @ + 1
                                      ELSE @,
                        !.pc = IF Len(batch) >= BATCH_SIZE THEN "adding"
                               ELSE "loop"]
    /\ UNCHANGED <<mainVars, searchVars, ctxVars, pIn, pOut, pDone>>

\* the entries are exhausted (part_001:199-202)
IngestEndOfEntries ==
    /\ ing.pc = "loop"
    /\ ing' = [ing EXCEPT !.pc = IF Len(ing.batch) > 0 THEN "addingFinal"
                                 ELSE "finalCount"]
    /\ UNCHANGED <<mainVars, searchVars, ctxVars, pIn, pOut, pDone>>

\* await db.addDocuments(batch) settles (part_001:189-197, 203-209): the
\* whole batch is stored and counted, or the failure is counted; the batch
\* of the loop is emptied, the final one is left
IngestAddReturn ==
    /\ ing.pc \in {"adding", "addingFinal"}
    /\ LET next == [ing EXCEPT
                        !.pc = IF ing.pc = "adding" THEN "loop"
                               ELSE "finalCount",
                        !.batch = IF ing.pc = "adding" THEN <<>> ELSE @]
       IN \/ /\ stored' = stored \cup BatchDocs(ing.batch)
             /\ ing' = [next EXCEPT !.totalIndexed = @ + Len(ing.batch)]
          \/ /\ ing' = [next EXCEPT !.errors = @ + 1]
             /\ UNCHANGED stored
    /\ UNCHANGED <<svcInitialized, dbInitialized, collection, handles,
                   embedder, loads, frame, ret, searchVars, ctxVars, pIn,
                   pOut, pDone>>

\* the closing await db.count() (part_001:217-218)
IngestFinalCount ==
    /\ ing.pc = "finalCount"
    /\ \/ ing' = [ing EXCEPT !.pc = "done"]
       \/ ing' = [ing EXCEPT !.pc = "exited"]
    /\ UNCHANGED <<mainVars, searchVars, ctxVars, pIn, pOut, pDone>>

----------------------------------------------------------------------------
(* Specifications *)

\* the state after construction: nothing is initialized, no model is loaded;
\* the Vector Index holds what an earlier ingestion run stored
Init ==
    /\ svcInitialized = FALSE
    /\ dbInitialized = FALSE
    /\ collection = 0
    /\ handles = 0
    /\ embedder = FALSE
    /\ loads = 0
    /\ stored = {Doc1, Doc2}
    /\ frame = [c \in Callers |-> Idle]
    /\ ret = NoReturn
    /\ sCall = [pc |-> "idle"]
    /\ ctxIn = [results |-> <<>>, maxLength |-> DefaultMaxLength]
    /\ ctxOut = EmptyContext
    /\ ctxDone = FALSE
    /\ pIn = InvalidJson
    /\ pOut = NoResult
    /\ pDone = FALSE
    /\ ing = NoRun

Next ==
    \E c \in Callers :
        \/ SvcInitialize(c)
        \/ DbInitialize(c)
        \/ GetOrCreateCollectionReturn(c)
        \/ CountReturn(c)
        \/ SvcInitializeResume(c)
        \/ Search(c)
        \/ SearchWithContext(c)
        \/ GetContextForSituation(c)
        \/ GetRandomLore(c)
        \/ GetByTitle(c)
        \/ LookupEntity(c)
        \/ GetReturn(c)
        \/ PipelineReturn(c)
        \/ EmbedReturn(c)
        \/ QueryReturn(c)

Spec == Init /\ [][Next]_vars

NextSearch == SearchStart \/ SearchIndexAnswer

\* the service is Ready; no search call has been made yet
InitSearch ==
    /\ svcInitialized = TRUE
    /\ dbInitialized = TRUE
    /\ collection = 1
    /\ handles = 1
    /\ embedder = TRUE
    /\ loads = 1
    /\ stored = Docs
    /\ frame = [c \in Callers |-> Idle]
    /\ ret = NoReturn
    /\ sCall = [pc |-> "idle"]
    /\ ctxIn = [results |-> <<>>, maxLength |-> DefaultMaxLength]
    /\ ctxOut = EmptyContext
    /\ ctxDone = FALSE
    /\ pIn = InvalidJson
    /\ pOut = NoResult
    /\ pDone = FALSE
    /\ ing = NoRun

SpecSearch == InitSearch /\ [][NextSearch]_vars

NextTool ==
    \E c \in ToolCallers :
        \/ SvcInitialize(c)
        \/ GetOrCreateCollectionReturn(c)
        \/ CountReturn(c)
        \/ SvcInitializeResume(c)
        \/ LoreSearchTool(c)
        \/ LoreLookupTool(c)
        \/ ContextTool(c)
        \/ StatusTool(c)
        \/ OtherTool(c)
        \/ GetReturn(c)
        \/ PipelineReturn(c)
        \/ EmbedReturn(c)
        \/ QueryReturn(c)
        \/ DocumentCountReturn(c)

\* the server after construction: the tools are called from the start
SpecTool == Init /\ [][NextTool]_vars

NextRepo ==
    \E c \in Callers :
        \/ SvcInitialize(c)
        \/ DbInitialize(c)
        \/ GetOrCreateCollectionReturn(c)
        \/ CountReturn(c)
        \/ SvcInitializeResume(c)
        \/ Search(c)
        \/ GetRandomLore(c)
        \/ DbSearch(c)
        \/ DbGetByTitle(c)
        \/ GetReturn(c)
        \/ PipelineReturn(c)
        \/ EmbedReturn(c)
        \/ QueryReturn(c)
        \/ Count(c)
        \/ DocumentCountReturn(c)
        \/ AddDocuments(c)
        \/ AddReturn(c)
        \/ Clear(c)
        \/ DeleteCollectionReturn(c)
        \/ RecreateCollectionReturn(c)

\* the state after construction, over an index that holds nothing yet
InitRepo ==
    /\ svcInitialized = FALSE
    /\ dbInitialized = FALSE
    /\ collection = 0
    /\ handles = 0
    /\ embedder = FALSE
    /\ loads = 0
    /\ stored = {}
    /\ frame = [c \in Callers |-> Idle]
    /\ ret = NoReturn
    /\ sCall = [pc |-> "idle"]
    /\ ctxIn = [results |-> <<>>, maxLength |-> DefaultMaxLength]
    /\ ctxOut = EmptyContext
    /\ ctxDone = FALSE
    /\ pIn = InvalidJson
    /\ pOut = NoResult
    /\ pDone = FALSE
    /\ ing = NoRun

SpecRepo == InitRepo /\ [][NextRepo]_vars

NextCtx == BuildContextCall

\* the inputs of buildContext are drawn here
InitCtx ==
    /\ svcInitialized = FALSE
    /\ dbInitialized = FALSE
    /\ collection = 0
    /\ handles = 0
    /\ embedder = FALSE
    /\ loads = 0
    /\ stored = Docs
    /\ frame = [c \in Callers |-> Idle]
    /\ ret = NoReturn
    /\ sCall = [pc |-> "idle"]
    /\ ctxIn \in [results : SeqsUpTo(CtxResults, MaxCtxResults),
                  maxLength : CtxMaxLengths]
    /\ ctxOut = EmptyContext
    /\ ctxDone = FALSE
    /\ pIn = InvalidJson
    /\ pOut = NoResult
    /\ pDone = FALSE
    /\ ing = NoRun

SpecCtx == InitCtx /\ [][NextCtx]_vars

NextParse == ParseEntryCall

\* the lines given to parseEntry are drawn here
InitParse ==
    /\ svcInitialized = FALSE
    /\ dbInitialized = FALSE
    /\ collection = 0
    /\ handles = 0
    /\ embedder = FALSE
    /\ loads = 0
    /\ stored = {}
    /\ frame = [c \in Callers |-> Idle]
    /\ ret = NoReturn
    /\ sCall = [pc |-> "idle"]
    /\ ctxIn = [results |-> <<>>, maxLength |-> DefaultMaxLength]
    /\ ctxOut = EmptyContext
    /\ ctxDone = FALSE
    /\ pIn \in ParseEntries
    /\ pOut = NoResult
    /\ pDone = FALSE
    /\ ing = NoRun

SpecParse == InitParse /\ [][NextParse]_vars

NextIngest ==
    \/ IngestInitialize
    \/ IngestCount
    \/ IngestEntry
    \/ IngestEndOfEntries
    \/ IngestAddReturn
    \/ IngestFinalCount

\* the script starts over an index that is empty or holds a document
InitIngest ==
    /\ svcInitialized = FALSE
    /\ dbInitialized = FALSE
    /\ collection = 0
    /\ handles = 0
    /\ embedder = FALSE
    /\ loads = 0
    /\ stored \in {{}, {Doc1}}
    /\ frame = [c \in Callers |-> Idle]
    /\ ret = NoReturn
    /\ sCall = [pc |-> "idle"]
    /\ ctxIn = [results |-> <<>>, maxLength |-> DefaultMaxLength]
    /\ ctxOut = EmptyContext
    /\ ctxDone = FALSE
    /\ pIn = InvalidJson
    /\ pOut = NoResult
    /\ pDone = FALSE
    /\ ing = NoRun

SpecIngest == InitIngest /\ [][NextIngest]_vars

----------------------------------------------------------------------------
(* Claims about search, checked under SpecSearch *)

\* what the caller asked for, read off the options object it passed
RequestedFloor == Opt(sCall.options, "minRelevance", DefaultMinRelevance)
RequestedCategory == Opt(sCall.options, "category", "any")

\* 1 - distance of a hit, the distance being 0 when the index reports none
CandRelevance(cand) ==
    Scale - (IF "distance" \in DOMAIN cand THEN cand.distance ELSE 0)

\* result r was made from hit cand
MadeFrom(r, cand) ==
    /\ r.title = cand.doc.title
    /\ r.text = cand.doc.text
    /\ r.type = cand.doc.type
    /\ r.relevance = CandRelevance(cand)

\* C1: every Result a search returns has relevance = 1 - distance of one of
\* the index's hits and relevance >= minRelevance (0.3 when omitted); no hit
\* below the floor is emitted.
C1_RelevanceFloor ==
    sCall.pc = "done" =>
        /\ \A i \in 1..Len(sCall.results) :
              /\ sCall.results[i].relevance >= RequestedFloor
              /\ \E j \in 1..Len(sCall.cands) :
                    MadeFrom(sCall.results[i], sCall.cands[j])
        /\ \A j \in 1..Len(sCall.cands) :
              CandRelevance(sCall.cands[j]) < RequestedFloor
                  => \A i \in 1..Len(sCall.results) :
                        ~MadeFrom(sCall.results[i], sCall.cands[j])

\* a search with the default floor that kept one hit and dropped another
C1_Witness ==
    /\ sCall.pc = "done"
    /\ "minRelevance" \notin DOMAIN sCall.options
    /\ Len(sCall.results) >= 1
    /\ \E j \in 1..Len(sCall.cands) :
          CandRelevance(sCall.cands[j]) < DefaultMinRelevance

NearestFirst(cands) ==
    \A i, j \in 1..Len(cands) :
        i < j => CandRelevance(cands[i]) >= CandRelevance(cands[j])

NonIncreasingRelevance(results) ==
    \A i, j \in 1..Len(results) :
        i < j => results[i].relevance >= results[j].relevance

\* C2: the returned list is an order-preserving subsequence of the index's
\* hits (no re-sorting, no duplication), so it is in non-increasing
\* relevance order whenever the index answered nearest-first.
C2_OrderPreserved ==
    sCall.pc = "done" =>
        /\ \E f \in [1..Len(sCall.results) -> 1..Len(sCall.cands)] :
              /\ \A i, j \in 1..Len(sCall.results) : i < j => f[i] < f[j]
              /\ \A i \in 1..Len(sCall.results) :
                    MadeFrom(sCall.results[i], sCall.cands[f[i]])
        /\ NearestFirst(sCall.cands)
              => NonIncreasingRelevance(sCall.results)

\* three hits nearest-first at different distances, the farthest dropped
C2_Witness ==
    /\ sCall.pc = "done"
    /\ Len(sCall.cands) = 3
    /\ Len(sCall.results) = 2
    /\ NearestFirst(sCall.cands)
    /\ sCall.results[1].relevance > sCall.results[2].relevance

\* C3: with a category other than `any` an exact-equality filter on the
\* category is passed to the index and every Result has that category;
\* with `any`, or no category, no filter is passed.
C3_CategoryFilter ==
    sCall.pc = "done" =>
        /\ RequestedCategory # "any" =>
              /\ sCall.where = <<RequestedCategory>>
              /\ \A i \in 1..Len(sCall.results) :
                    sCall.results[i].type = RequestedCategory
        /\ RequestedCategory = "any" => sCall.where = <<>>

\* a search for locations that returned both stored locations
C3_Witness ==
    /\ sCall.pc = "done"
    /\ RequestedCategory = "location"
    /\ Len(sCall.results) = 2

----------------------------------------------------------------------------
(* Claims about buildContext, checked under SpecCtx *)

\* C4: the text buildContext returns is never longer than maxLength plus
\* the ellipsis marker, also when maxLength is smaller than the header and
\* when the truncated entry has a long title.
C4_LengthWithinBudget ==
    ctxDone =>
        TextLength(ctxOut.text) <= ctxIn.maxLength + EllipsisAllowance

\* C5: `sources` holds each title at most once, also when two results of
\* the input carry the same title.
C5_SourcesUnique ==
    ctxDone => NoDuplicates(ctxOut.sources)

\* C6: an empty result list yields the empty Context for every maxLength:
\* empty text (no header), sourceCount 0, no sources.
C6_EmptyInput ==
    (ctxDone /\ ctxIn.results = <<>>) =>
        /\ ctxOut.text = <<>>
        /\ TextLength(ctxOut.text) = 0
        /\ ctxOut.sourceCount = 0
        /\ ctxOut.sources = <<>>

\* buildContext has returned for an empty list and a budget above the header
C6_Witness ==
    /\ ctxDone
    /\ ctxIn.results = <<>>
    /\ ctxIn.maxLength > Len(HeaderText)

----------------------------------------------------------------------------
(* Claims about the service, checked under Spec *)

QueryOps == {"search", "getByTitle", "lookupEntity", "searchWithContext",
             "getContextForSituation", "getRandomLore"}
InitOps == {"initialize", "dbInitialize"}

\* in this step caller c makes a call of one of ops (the call may settle in
\* the same step)
CallStarts(c, ops) ==
    /\ frame[c].pc = "idle"
    /\ \/ frame'[c].pc # "idle" /\ frame'[c].op \in ops
       \/ ret'.op \in ops /\ ret'.caller = c

StoredWithTitle(title) == {d \in stored : d.title = title}

\* C7: when a stored document has exactly the title `name`, a lookupEntity
\* call the index answers returns that document with relevance 1.0, and no
\* model load, embedding computation or nearest-neighbour query is made.
C7_ExactLookup ==
    (/\ ret.op = "lookupEntity"
     /\ ret.gotten
     /\ StoredWithTitle(ret.args["name"]) # {})
        => /\ \E d \in StoredWithTitle(ret.args["name"]) :
                 ret.outcome = Ok(MkResult(d.text, d.title, d.type, Scale))
           /\ ret.io.loads = 0
           /\ ret.io.embeds = 0
           /\ ret.io.queries = 0

\* lookupEntity("Sigmar", "location") has returned the stored deity entry
C7_Witness ==
    /\ ret.op = "lookupEntity"
    /\ ret.args = [name |-> "Sigmar", category |-> "location"]
    /\ ret.outcome.kind = "ok"
    /\ svcInitialized /\ dbInitialized

\* C8: lookupEntity is a two-step chain: the exact-title lookup comes first;
\* the semantic search (limit 1, the given category) is made only when the
\* exact lookup found nothing, and then lookupEntity returns the first
\* Result of that search, or none when the search returns an empty list.
C8_FallbackChain ==
    /\ ret.op = "lookupEntity" =>
          /\ ret.searched => (ret.gotten /\ ret.got = <<>> /\ ret.io.gets = 1)
          /\ (ret.gotten /\ ret.got = <<>>) =>
                /\ ret.searched
                /\ ret.sopts = (IF "category" \in DOMAIN ret.args
                                THEN [limit |-> 1,
                                      category |-> ret.args["category"]]
                                ELSE [limit |-> 1])
          /\ (ret.searched /\ ret.outcome.kind = "ok") =>
                ret.outcome.value = (IF ret.results = <<>> THEN NoResult
                                     ELSE ret.results[1])
          /\ ~ret.searched =>
                ret.io.loads + ret.io.embeds + ret.io.queries = 0
    /\ \A c \in Callers :
          (frame[c].op = "lookupEntity" /\ frame[c].pc # "getting") =>
              (frame[c].gotten /\ frame[c].got = <<>> /\ frame[c].searched)

\* lookupEntity("Nuln", "location") fell back to the search and returned
\* its only hit
C8_Witness ==
    /\ ret.op = "lookupEntity"
    /\ ret.args = [name |-> "Nuln", category |-> "location"]
    /\ ret.searched
    /\ ret.outcome.kind = "ok"
    /\ Len(ret.results) = 1
    /\ ret.outcome.value = ret.results[1]

\* C9: while initialize has not completed successfully on the service,
\* every query operation fails at once with the not-initialized error: no
\* waiting, no model load, no embedding computation, no index request.
C9_FailFast ==
    [][\A c \in Callers :
          (~svcInitialized /\ CallStarts(c, QueryOps)) =>
              /\ frame'[c] = Idle
              /\ ret'.caller = c
              /\ ret'.outcome = NotInitialized
              /\ ret'.io = ZeroIO
              /\ loads' = loads]_vars

\* a query was rejected while an initialize call was waiting for the index,
\* the collection handle being already set
C9_Witness ==
    /\ ret.op \in QueryOps
    /\ ret.outcome = NotInitialized
    /\ ~svcInitialized
    /\ collection # 0
    /\ \E c \in Callers :
          frame[c].op = "initialize" /\ frame[c].pc = "count"

\* C10: once the repository's initialize has completed successfully, every
\* later initialize() call, on the service or on the repository, makes no
\* request to the Vector Index and leaves the flags set and the collection
\* handle unchanged; in the Ready state it returns at once.
C10_InitializeIdempotent ==
    [][\A c \in Callers :
          (dbInitialized /\ CallStarts(c, InitOps)) =>
              /\ collection' = collection
              /\ handles' = handles
              /\ dbInitialized'
              /\ frame'[c].pc \in {"idle", "svc_resume"}
              /\ frame'[c].io = ZeroIO
              /\ svcInitialized =>
                    /\ svcInitialized'
                    /\ frame'[c] = Idle
                    /\ ret'.outcome = Ok(NoResult)
                    /\ ret'.io = ZeroIO]_vars

\* in the Ready state an initialize call on the repository has returned
\* without any request
C10_Witness ==
    /\ svcInitialized /\ dbInitialized
    /\ ret.op = "dbInitialize"
    /\ ret.outcome = Ok(NoResult)
    /\ ret.io = ZeroIO

\* C11: the embedding model is loaded at most once in the life of the
\* process, whatever the interleaving of concurrent first uses: no two
\* loads are ever under way together, and none once the handle is set.
C11_SingleModelLoad ==
    Cardinality({c \in Callers : frame[c].pc = "loading"})
        + (IF embedder THEN 1 ELSE 0) <= 1

----------------------------------------------------------------------------
(* Claims about the repository operations, checked under SpecRepo *)

\* C12: Ready is terminal: once isReady() is true no step of any operation,
\* failed searches, failed addDocuments and clear() calls that fail part-way
\* included, makes it false again.
C12_ReadyTerminal == [][IsReady => IsReady']_vars

\* a clear() failed after the collection was deleted, and the service is
\* still Ready
C12_Witness ==
    /\ IsReady
    /\ ret.op = "clear"
    /\ ret.outcome = IndexError
    /\ ret.io.deletes = 1
    /\ ret.io.colls = 1

\* C13: documentCount never fails: it returns a count in every state, and
\* that count is 0 whenever the repository is not initialized.
C13_CountNeverFails ==
    ret.op = "count" =>
        /\ ret.outcome.kind = "ok"
        /\ ~dbInitialized => ret.outcome.value = 0

\* C14: addDocuments is all-or-nothing per batch: the documents of a batch
\* reach the index in one write, made only after every embedding of the
\* batch succeeded; a call that fails writes nothing, and no step of
\* addDocuments removes a document an earlier batch stored.
C14_BatchAllOrNothing ==
    [][\A c \in Callers :
          frame[c].op = "addDocuments" /\ frame'[c] # frame[c] =>
              /\ stored \subseteq stored'
              /\ stored' # stored =>
                    /\ frame[c].pc = "adding"
                    /\ frame[c].io.embeds = Len(frame[c].args["batch"])
                    /\ frame[c].io.adds = 1
                    /\ ret'.outcome = Ok(NoResult)
                    /\ stored' = stored \cup BatchDocs(frame[c].args["batch"])
              /\ ret'.op = "addDocuments" /\ ret'.outcome.kind = "error" =>
                    stored' = stored
              /\ ret'.op = "addDocuments" /\ ret'.outcome = EmbedError =>
                    ret'.io.adds = 0]_vars

\* the second embedding of a batch of two failed: the batch left no trace
\* and the document of the earlier batch is still stored
C14_Witness ==
    /\ ret.op = "addDocuments"
    /\ ret.outcome = EmbedError
    /\ ret.args["batch"] = <<Doc2, Doc1>>
    /\ ret.io.embeds = 2
    /\ ret.io.adds = 0
    /\ stored = {Doc1}

\* the step in which caller c calls addDocuments with an empty batch
StartsEmptyAdd(c) ==
    /\ frame[c].pc = "idle"
    /\ \/ /\ frame'[c].op = "addDocuments"
          /\ frame'[c].args["batch"] = <<>>
       \/ /\ frame'[c] = Idle
          /\ ret'.op = "addDocuments"
          /\ ret'.caller = c
          /\ ret'.args["batch"] = <<>>

\* the call returned at once, without any embedding, index request or change
EmptyAddIsNoOp(c) ==
    /\ frame'[c] = Idle
    /\ ret'.io = ZeroIO
    /\ UNCHANGED <<svcInitialized, dbInitialized, collection, handles,
                   embedder, loads, stored>>

\* C15 as stated: addDocuments with an empty batch is a no-op in every
\* state and raises no error.
C15_EmptyBatchNoOp ==
    [][\A c \in Callers :
          StartsEmptyAdd(c) =>
              EmptyAddIsNoOp(c) /\ ret'.outcome = Ok(NoResult)]_vars

\* C15 amended: addDocuments with an empty batch computes no embedding,
\* issues no index write and changes no state in every state; it raises no
\* error when the repository holds a collection handle, and fails with the
\* not-initialized error when it holds none.
C15_EmptyBatchNoOpWithHandle ==
    [][\A c \in Callers :
          StartsEmptyAdd(c) =>
              /\ EmptyAddIsNoOp(c)
              /\ ret'.outcome = IF collection = 0
                                THEN DbNotInitialized
                                ELSE Ok(NoResult)]_vars

\* an empty batch was accepted by a repository that holds a handle
C15_Witness ==
    /\ ret.op = "addDocuments"
    /\ ret.args["batch"] = <<>>
    /\ ret.outcome = Ok(NoResult)
    /\ ret.io = ZeroIO
    /\ collection # 0

----------------------------------------------------------------------------
(* Claims about the tool handlers, checked under SpecTool *)

\* the limit the handler handed to RAGService.search for a call with
\* tool arguments targs is within [1,10], is 5 for an absent argument and
\* is the argument itself when that is within [1,10]
LimitHandedOn(targs, sopts) ==
    /\ "limit" \in DOMAIN sopts
    /\ sopts.limit \in 1..10
    /\ "limit" \notin DOMAIN targs => sopts.limit = 5
    /\ "limit" \in DOMAIN targs /\ targs.limit \in 1..10 =>
            sopts.limit = targs.limit

\* C16: for every limit argument of the lore_search tool (absent, zero,
\* negative, above 10, in range) the limit passed on to the Retrieval
\* Service is an integer in [1,10]; 5 if absent; the argument if in range.
C16_LimitClamped ==
    /\ \A c \in Callers :
          frame[c].tool = "warhammer_lore_search" =>
              frame[c].searched /\ LimitHandedOn(frame[c].targs,
                                                 frame[c].sopts)
    /\ ret.op # "none" /\ ret.tool = "warhammer_lore_search" =>
          ret.searched /\ LimitHandedOn(ret.targs, ret.sopts)

\* a search asked for 25 results was made with limit 10 and answered
C16_Witness ==
    /\ ret.op # "none"
    /\ ret.tool = "warhammer_lore_search"
    /\ ret.targs = [limit |-> 25]
    /\ ret.response.kind = "results"
    /\ ret.sopts.limit = 10
    /\ ret.dbopts.limit = 10

\* C17: the lore_context tool honours the caller's maxLength (2000 when
\* absent): the context text it returns is never longer than maxLength plus
\* the truncation-marker allowance.
C17_ContextWithinMaxLength ==
    ret.op # "none" /\ ret.tool = "warhammer_context"
                   /\ ret.response.kind = "context" =>
        ret.response.length <= ToolMaxLength(ret.targs) + EllipsisAllowance

\* the service call of a tool request ended without a value
ServiceFailed(r) == r.outcome.kind = "error"

\* the service call of a tool request completed and found nothing
CompletedEmpty(r) ==
    /\ r.outcome.kind = "ok"
    /\ r.searched
    /\ r.io.queries = 1
    /\ r.results = <<>>
    /\ r.tool = "warhammer_lore_lookup" =>
            r.gotten /\ GetByTitleResult(r.got, r.args["name"]) = NoResult

\* C18: when the Retrieval Service raises an error during lore_lookup or
\* lore_search the handler returns the error response carrying the message,
\* never a not-found response; it returns the not-found response only when
\* the operation completed with an empty outcome; it always returns a
\* response.
C18_ErrorsNotReportedAsNotFound ==
    ret.op # "none"
        /\ ret.tool \in {"warhammer_lore_lookup", "warhammer_lore_search"} =>
        /\ ret.response.kind \in {"error", "noLoreFound", "entityNotFound",
                                   "results", "entity"}
        /\ ServiceFailed(ret) =>
              ret.response = [kind |-> "error", message |-> ret.outcome.error]
        /\ ret.response.kind \in {"noLoreFound", "entityNotFound"} <=>
              CompletedEmpty(ret)
        /\ ret.response.kind = "noLoreFound" =>
              ret.tool = "warhammer_lore_search"
        /\ ret.response.kind = "entityNotFound" =>
              ret.tool = "warhammer_lore_lookup"

\* a lookup failed in the index after the exact lookup had found nothing,
\* and the client was told of the failure
C18_Witness ==
    /\ ret.op # "none"
    /\ ret.tool = "warhammer_lore_lookup"
    /\ ret.gotten
    /\ ret.io.queries = 1
    /\ ret.outcome = IndexError
    /\ ret.response = [kind |-> "error", message |-> "IndexError"]

----------------------------------------------------------------------------
(* Claims about the ingestion script, checked under SpecParse, SpecIngest *)

\* C19: every Document parseEntry produces has a text of at least 50 and at
\* most 3000 characters: a record whose extractable text is shorter than 50
\* characters yields no document, and a longer text is cut to 3000.
C19_TextLengthBounds ==
    pDone =>
        /\ pOut # NoResult => pOut.text \in 50..3000
        /\ pIn.json = "object" =>
              LET length == ExtractedLength(pIn.fields)
              IN /\ length < 50 => pOut = NoResult
                 /\ length >= 50 =>
                       /\ pOut # NoResult
                       /\ pOut.text = Min(length, 3000)

\* a summary and a description of 1500 characters each, joined to 3002,
\* made a document of 3000
C19_Witness ==
    /\ pDone
    /\ pIn.json = "object"
    /\ ExtractedLength(pIn.fields) = 3002
    /\ pOut # NoResult
    /\ pOut.text = 3000

\* C20: every malformed record is skipped, adds one to the run's error
\* count, and never stops the run.
C20_MalformedCounted ==
    [][ing'.malformed = ing.malformed + 1 =>
          /\ ing'.batch = ing.batch
          /\ ing'.errors = ing.errors + 1
          /\ ing'.pc = "loop"]_vars

\* the part of C20 the script keeps: a malformed record leaves the batch as
\* it is and the loop goes on to the next entry
MalformedSkipped ==
    [][ing'.malformed = ing.malformed + 1 =>
          /\ ing'.batch = ing.batch
          /\ ing'.pc = "loop"
          /\ ing'.totalProcessed = ing.totalProcessed + 1]_vars

\* the categories a stored document may carry: every one but the wildcard
StoredCategories == LoreCategories \ {"any"}

\* C21: every document made by ingestion carries one of the nine categories
\* character, location, creature, item, event, organization, deity, spell,
\* general, whatever the raw type of the record, and never `any`.
C21_TypeInClosedSet ==
    pDone /\ pOut # NoResult => pOut.type \in StoredCategories

----------------------------------------------------------------------------
(* More claims about the service over a changing index (SpecRepo) *)

\* C22: in the Ready state getRandomLore(category?) makes one search with
\* limit 10 and the category, if any; when that search is answered it
\* returns none exactly when the search found nothing, and otherwise one of
\* the results found; over an empty index the answer is none, not an error.
C22_RandomLore ==
    ret.op = "getRandomLore" /\ ret.outcome.kind = "ok" =>
        /\ ret.sopts = RandomSearchOptions(ret.args)
        /\ ret.sopts.limit = 10
        /\ ret.io.queries = 1
        /\ ret.outcome.value = NoResult <=> ret.results = <<>>
        /\ ret.results # <<>> =>
              \E i \in 1..Len(ret.results) :
                  ret.outcome.value = ret.results[i]
        /\ stored = {} => ret.outcome.value = NoResult

\* getRandomLore was answered none by a Ready service over an empty index
C22_Witness ==
    /\ ret.op = "getRandomLore"
    /\ ret.outcome = Ok(NoResult)
    /\ IsReady
    /\ stored = {}
    /\ ret.io.queries = 1

----------------------------------------------------------------------------
(* More claims about search (SpecSearch) *)

\* C23: every Result a search emits has a relevance in [0,1], for every
\* distance in [0,2] the index may report and every minRelevance passed.
C23_RelevanceInUnitInterval ==
    sCall.pc = "done" =>
        \A i \in 1..Len(sCall.results) :
            sCall.results[i].relevance \in 0..Scale

----------------------------------------------------------------------------
(* More claims about the service (Spec) *)

\* the requests a search call has made at each of its awaits: none while
\* the model loads, the embedding alone while it is computed, the embedding
\* and then the query while the index is asked
SearchInOrder(f) ==
    /\ f.pc = "loading" => f.io.embeds = 0 /\ f.io.queries = 0
    /\ f.pc = "embedding" => f.io.embeds = 1 /\ f.io.queries = 0
    /\ f.pc = "querying" => f.io.embeds = 1 /\ f.io.queries = 1

\* C24: each search call in the Ready state issues exactly one embedding
\* computation and then exactly one index query, in that order; when the
\* embedding fails no query is issued; when either fails the error reaches
\* the caller and nothing is tried a second time.
C24_OneEmbeddingOneQuery ==
    /\ \A c \in Callers :
          frame[c].op = "search" => SearchInOrder(frame[c])
    /\ ret.op = "search" /\ ret.outcome # NotInitialized =>
          /\ ret.io.embeds <= 1
          /\ ret.io.queries <= 1
          /\ ret.io.loads <= 1
          /\ ret.outcome.kind = "ok" =>
                ret.io.embeds = 1 /\ ret.io.queries = 1
          /\ ret.outcome.kind = "error" =>
                ret.outcome \in {EmbedError, IndexError}
          /\ ret.outcome = EmbedError => ret.io.queries = 0
          /\ ret.outcome = IndexError =>
                ret.io.embeds = 1 /\ ret.io.queries = 1

\* the embedding of a search failed: the caller got the error and the
\* index was not asked
C24_Witness ==
    /\ ret.op = "search"
    /\ ret.outcome = EmbedError
    /\ ret.io.embeds = 1
    /\ ret.io.queries = 0

----------------------------------------------------------------------------
(* More claims about buildContext (SpecCtx) *)

\* length of the header followed by the full entries of the first k results
RECURSIVE FullLength(_, _)
FullLength(results, k) ==
    IF k = 0 THEN Len(HeaderText)
    ELSE FullLength(results, k - 1)
            + Len("### ") + Len(results[k].title) + Len("\n")
            + results[k].text + Len("\n\n")

\* the results whose full entry does not fit after the full entries of all
\* the results before them
NonFitting(results, maxLength) ==
    {k \in 1..Len(results) : FullLength(results, k) > maxLength}

\* the number of results in front of the first one that does not fit
FittingPrefix(results, maxLength) ==
    IF NonFitting(results, maxLength) = {} THEN Len(results)
    ELSE (CHOOSE k \in NonFitting(results, maxLength) :
              \A j \in NonFitting(results, maxLength) : k <= j) - 1

\* C25: buildContext packs greedily in input order and stops at the first
\* result whose full entry does not fit: the entries of the text are made
\* from a prefix of the input, in order; sources are the titles of that
\* prefix; only the last entry may be truncated; no result after the first
\* non-fitting one is added.
C25_GreedyPrefix ==
    ctxDone /\ ctxIn.results # <<>> =>
        LET results == ctxIn.results
            n == Len(ctxOut.sources)
            fit == FittingPrefix(results, ctxIn.maxLength)
        IN /\ n \in {fit, fit + 1}
           /\ n <= Len(results)
           /\ Len(ctxOut.text) = n + 1
           /\ ctxOut.text[1] = HeaderPiece
           /\ \A k \in 1..n :
                 /\ ctxOut.sources[k] = results[k].title
                 /\ ctxOut.text[k + 1].title = results[k].title
                 /\ k <= fit => ctxOut.text[k + 1] = EntryPiece(results[k])
                 /\ k > fit => ctxOut.text[k + 1].kind = "truncated"

\* the first result did not fit and was left out; the second, which would
\* have fitted, was not added
C25_Witness ==
    /\ ctxDone
    /\ Len(ctxIn.results) = 2
    /\ FullLength(ctxIn.results, 1) > ctxIn.maxLength
    /\ Len(HeaderText) + Len("### ") + Len(ctxIn.results[2].title) + Len("\n")
           + ctxIn.results[2].text + Len("\n\n") <= ctxIn.maxLength
    /\ ctxOut.sources = <<>>
    /\ ctxOut.text = <<HeaderPiece>>

\* C26: a result whose full entry fits is appended in full; for the first
\* result whose full entry does not fit, a truncated entry is appended and
\* its title recorded exactly when maxLength - current length - 50 is
\* greater than 200; otherwise nothing is appended for it.
C26_TruncationThreshold ==
    ctxDone /\ ctxIn.results # <<>> =>
        LET results == ctxIn.results
            fit == FittingPrefix(results, ctxIn.maxLength)
            room == ctxIn.maxLength - FullLength(results, fit) - 50
        IN /\ \A k \in 1..fit :
                 /\ Len(ctxOut.text) >= k + 1
                 /\ ctxOut.text[k + 1] =
                       [kind |-> "entry", title |-> results[k].title,
                        body |-> results[k].text]
                 /\ ctxOut.sources[k] = results[k].title
           /\ fit < Len(results) /\ room > 200 =>
                 /\ Len(ctxOut.text) = fit + 2
                 /\ ctxOut.text[fit + 2] =
                       [kind |-> "truncated", title |-> results[fit + 1].title,
                        body |-> Min(results[fit + 1].text, room)]
                 /\ Len(ctxOut.sources) = fit + 1
                 /\ ctxOut.sources[fit + 1] = results[fit + 1].title
           /\ fit < Len(results) /\ room <= 200 =>
                 /\ Len(ctxOut.text) = fit + 1
                 /\ Len(ctxOut.sources) = fit
           /\ fit = Len(results) =>
                 /\ Len(ctxOut.text) = fit + 1
                 /\ Len(ctxOut.sources) = fit

\* after one full entry exactly 200 characters were left beside the
\* reserve: the second result was left out
C26_Witness ==
    /\ ctxDone
    /\ Len(ctxIn.results) = 2
    /\ FittingPrefix(ctxIn.results, ctxIn.maxLength) = 1
    /\ ctxIn.maxLength - FullLength(ctxIn.results, 1) - 50 = 200
    /\ Len(ctxOut.sources) = 1

\* the entries appended to a text: its pieces other than the header
EntriesIn(text) ==
    Cardinality({k \in 1..Len(text) : text[k].kind # "header"})

\* C30: for every input the Context returned has sourceCount = length of
\* sources = number of entries, full or truncated, appended to the text;
\* with a non-empty input sourceCount is 0 only when not even a truncated
\* first entry was added, and the text is then the header alone.
C30_SourceCountConsistent ==
    ctxDone =>
        /\ ctxOut.sourceCount = Len(ctxOut.sources)
        /\ ctxOut.sourceCount = EntriesIn(ctxOut.text)
        /\ ctxIn.results # <<>> /\ ctxOut.sourceCount = 0 =>
              /\ ctxOut.text = <<HeaderPiece>>
              /\ FullLength(ctxIn.results, 1) > ctxIn.maxLength
              /\ ctxIn.maxLength - Len(HeaderText) - 50 <= 200

\* a non-empty input gave the header alone and no source
C30_Witness ==
    /\ ctxDone
    /\ ctxIn.results # <<>>
    /\ ctxOut.sourceCount = 0
    /\ ctxOut.text = <<HeaderPiece>>

----------------------------------------------------------------------------
(* More claims about the repository (SpecRepo) *)

RepoQueryOps == {"dbSearch", "dbGetByTitle", "addDocuments"}

\* C27: in every state where the repository's isInitialized() is false,
\* before initialize(), while it is in progress and after it failed at any
\* step, search, getByTitle and addDocuments of the repository fail with
\* the not-initialized error and issue no embedding or index request.
C27_RepositoryRejects ==
    [][\A c \in Callers :
          (~dbInitialized /\ CallStarts(c, RepoQueryOps)) =>
              /\ frame'[c] = Idle
              /\ ret'.caller = c
              /\ ret'.outcome = DbNotInitialized
              /\ ret'.io = ZeroIO]_vars

----------------------------------------------------------------------------
(* More claims about lookupEntity and initialize (Spec) *)

\* C28: for every lookupEntity(name, category) call with a category other
\* than `any`, the Result returned, from the exact-title step or from the
\* semantic fallback, has the requested category.
C28_LookupCategory ==
    (/\ ret.op = "lookupEntity"
     /\ ret.outcome.kind = "ok"
     /\ ret.outcome.value # NoResult
     /\ "category" \in DOMAIN ret.args
     /\ ret.args["category"] # "any")
        => ret.outcome.value.type = ret.args["category"]

\* in this step the call of caller c settles
Settles(c) == frame[c].pc # "idle" /\ frame'[c] = Idle /\ ret'.caller = c

\* C29: a failed initialize() is recoverable and never half-applied at the
\* service level: when the index fails during initialize() the error
\* reaches the caller after one attempt and neither flag is set, so the
\* service is no more Ready than before; an initialize() call on a service
\* that is not initialized asks the index for the collection again; and an
\* initialize() that succeeds leaves the service Ready.
C29_FailedInitializeRecoverable ==
    [][\A c \in Callers :
          /\ (Settles(c) /\ ret'.op = "initialize"
                         /\ ret'.outcome.kind = "error") =>
                /\ ret'.outcome = IndexError
                /\ ret'.io.colls = 1
                /\ ret'.io.counts <= 1
                /\ svcInitialized' = svcInitialized
                /\ dbInitialized' = dbInitialized
          /\ (~svcInitialized /\ ~dbInitialized
                 /\ CallStarts(c, {"initialize"})) =>
                /\ frame'[c].pc = "getOrCreateCollection"
                /\ frame'[c].io.colls = 1
          /\ (Settles(c) /\ ret'.op = "initialize"
                         /\ ret'.outcome.kind = "ok") =>
                svcInitialized' /\ dbInitialized'
          /\ (~svcInitialized /\ CallStarts(c, QueryOps)) =>
                ret'.outcome = NotInitialized]_vars

\* an initialize() failed at the count: the handle is set, no flag is, and
\* the service is not Ready
C29_Witness ==
    /\ ret.op = "initialize"
    /\ ret.outcome = IndexError
    /\ ret.io.counts = 1
    /\ collection # 0
    /\ ~svcInitialized
    /\ ~dbInitialized
    /\ ~IsReady

============================================================================
